---- MODULE Spec2Model ----
(***************************************************************************)
(* Model of DCAExecutor (src/src/dca_executor.py): one run of execute()    *)
(* against an exchange whose answers (filters, best ask, order status,     *)
(* failures) are chosen nondeterministically.                              *)
(*                                                                         *)
(* Decimal values are exact rationals <<numerator, denominator>> with a    *)
(* positive denominator.  Prices are counted in a price unit, quantities   *)
(* in a quantity unit, spend and notional in their product.  Within the    *)
(* bounds below no quotient needs more than the 28 significant digits of   *)
(* Python's default Decimal context, so division is exact here.            *)
(***************************************************************************)
EXTENDS Integers, Sequences, FiniteSets, TLC

\* ------------------------------------------------------------------ bounds
MaxChecks == 4
MaxIntervals == 2
MaxReprices == 1

\* Inputs the run is explored over.
SpendValues == {6, 40}
Multipliers == {<<1, 2>>, <<9, 10>>}
AskValues == {1, 6, 8, 20}
FilterSets ==
    { [tick_size |-> 1, step_size |-> 1, min_notional |-> 4, min_qty |-> 1, max_qty |-> 12],
      [tick_size |-> 2, step_size |-> 2, min_notional |-> 10, min_qty |-> 2, max_qty |-> 8] }
Statuses == {"NEW", "PARTIALLY_FILLED", "FILLED", "CANCELED", "REJECTED", "EXPIRED"}

\* ------------------------------------------------------- Decimal helpers
Rat(n) == <<n, 1>>
RMul(a, b) == <<a[1] * b[1], a[2] * b[2]>>
RDiv(a, b) == <<a[1] * b[2], a[2] * b[1]>>
RLt(a, b) == a[1] * b[2] < b[1] * a[2]
RLe(a, b) == a[1] * b[2] <= b[1] * a[2]
REq(a, b) == a[1] * b[2] = b[1] * a[2]
RIsZero(a) == a[1] = 0
\* value is an integer multiple of step (step = 0: only zero is).
IsMultipleOf(a, step) ==
    IF step = 0 THEN a[1] = 0
    ELSE \E k \in 0..(a[1] \div (a[2] * step)) : a[1] = k * step * a[2]

\* None of Optional fields: order ids of the exchange are positive.
NoOrderId == 0
NoDecimal == <<>>

\* ------------------------------------------------------- rounding module
\* round_down / round_to_tick are imported from src.binance_client but not
\* defined in the sources; they follow the rounding module of the design.
\* Variants of RoundDown: rounds half up; steps below a value that is already
\* a multiple.
RoundDown_HalfUp(value, step) ==
    IF step = 0 THEN value
    ELSE Rat(((2 * value[1] + value[2] * step) \div (2 * value[2] * step)) * step)
RoundDown_CeilMinusOne(value, step) ==
    IF step = 0 THEN value
    ELSE Rat((((value[1] + value[2] * step - 1) \div (value[2] * step)) - 1) * step)

RoundDown(value, step) ==
    IF step = 0 THEN value
    ELSE Rat((value[1] \div (value[2] * step)) * step)

RoundToTick(price, tick) ==
    IF tick = 0 THEN price
    ELSE Rat((price[1] \div (price[2] * tick)) * tick)

\* ----------------------------------------------------------- order sizer
CalculateLimitPrice(best_ask, multiplier, f) ==
    RoundToTick(RMul(best_ask, multiplier), f.tick_size)

\* Variant of CalculateQuantity: quantizes by the tick size.
CalculateQuantity_TickForStep(spend, price, f) ==
    RoundDown(RDiv(spend, price), f.tick_size)

\* _calculate_quantity(), lines 97-104.
\* spend / price raises decimal.DivisionByZero for price = 0; callers guard.
CalculateQuantity(spend, price, f) ==
    RoundDown(RDiv(spend, price), f.step_size)

\* ------------------------------------------------------ filter validator
\* Variant of ValidateOrder: the max_qty check comes first.
ValidateOrder_MaxFirst(quantity, price, f) ==
    IF RLt(Rat(f.max_qty), quantity) THEN "above_max_qty"
    ELSE IF RLt(quantity, Rat(f.min_qty)) THEN "below_min_qty"
    ELSE IF RLt(RMul(quantity, price), Rat(f.min_notional)) THEN "below_min_notional"
    ELSE "ok"

\* _validate_order(), lines 106-123
ValidateOrder(quantity, price, f) ==
    IF RLt(quantity, Rat(f.min_qty)) THEN "below_min_qty"
    ELSE IF RLt(Rat(f.max_qty), quantity) THEN "above_max_qty"
    ELSE IF RLt(RMul(quantity, price), Rat(f.min_notional)) THEN "below_min_notional"
    ELSE "ok"

\* ----------------------------------------------------------------- state
VARIABLES
    pc,               \* position of execute(): start, sizing, placing, monitoring, done, error, fault
    config,           \* OrderConfig of the run
    dry_run,          \* dry_run argument of execute()
    filters,          \* filters fetched at the start of the run
    quantity,         \* quantity computed by the sizer
    limit_price,      \* limit price computed by the sizer
    current_order_id, \* _monitor_order locals
    current_price,
    reprice_count,
    intervals_above,
    check_num,
    result,           \* OrderResult returned by execute(), or NoResult
    calls,            \* exchange calls made so far, in order
    obs,              \* status and ask of the latest completed observation (sizing: ask only)
    seen,             \* the monitor's completed observations so far, oldest first
    probe,            \* input and output of a pure function applied on its own
    args,             \* command-line arguments of main(), after parse_args()
    exit_code         \* value main() returned, or NoExit

vars == <<pc, config, dry_run, filters, quantity, limit_price, current_order_id,
          current_price, reprice_count, intervals_above, check_num, result,
          calls, obs, seen, probe, args, exit_code>>

NoResult == [success |-> FALSE, filled |-> FALSE, order_id |-> NoOrderId,
             quantity |-> NoDecimal, price |-> NoDecimal, message |-> <<"none">>]
NoFilters == [tick_size |-> 0, step_size |-> 0, min_notional |-> 0, min_qty |-> 0, max_qty |-> 0]
NoObs == [status |-> "none", ask |-> 0]
NoProbe == [fn |-> "none"]
NoArgs == [spend_eur |-> NoDecimal, price_multiplier |-> NoDecimal, dry_run |-> FALSE,
           has_credentials |-> FALSE]
NoExit == -1

OrderResult(success, filled, order_id, qty, price, message) ==
    [success |-> success, filled |-> filled, order_id |-> order_id,
     quantity |-> qty, price |-> price, message |-> message]

Call(op, ok) == [op |-> op, ok |-> ok]
\* status_read: the status the executor reads from the response ("unread":
\* the response's status is not looked at, "none": the call raised).
PlaceCall(qty, price, ok, order_id, status_read) ==
    [op |-> "place_limit_order", ok |-> ok, quantity |-> qty, price |-> price,
     order_id |-> order_id, status_read |-> status_read]
OrderCall(op, order_id, ok) == [op |-> op, ok |-> ok, order_id |-> order_id]

\* Orders the exchange accepted so far; it numbers them 1, 2, ...
PlacedCalls(log) == SelectSeq(log, LAMBDA c : c.op = "place_limit_order" /\ c.ok)
NextOrderId(log) == Len(PlacedCalls(log)) + 1

Configs ==
    [spend_quote : SpendValues, price_multiplier : Multipliers,
     intervals_before_reprice : 0..MaxIntervals, max_reprices : 0..MaxReprices]

Init ==
    /\ pc = "start"
    /\ config \in Configs
    /\ dry_run \in BOOLEAN
    /\ filters = NoFilters
    /\ quantity = NoDecimal
    /\ limit_price = NoDecimal
    /\ current_order_id = NoOrderId
    /\ current_price = NoDecimal
    /\ reprice_count = 0
    /\ intervals_above = 0
    /\ check_num = 0
    /\ result = NoResult
    /\ calls = <<>>
    /\ obs = NoObs
    /\ seen = <<>>
    /\ probe = NoProbe
    /\ args = NoArgs
    /\ exit_code = NoExit

monitorVars == <<current_order_id, current_price, reprice_count, intervals_above, check_num,
                 obs, seen>>

\* execute(), lines 54-56: fetch the filters of the symbol.
FetchFilters ==
    /\ pc = "start"
    /\ \E f \in FilterSets, fail \in {"none", "get_exchange_info"} :
         IF fail = "get_exchange_info"
         THEN /\ pc' = "error"
              /\ calls' = Append(calls, Call("get_exchange_info", FALSE))
              /\ UNCHANGED filters
         ELSE /\ pc' = "sizing"
              /\ calls' = Append(calls, Call("get_exchange_info", TRUE))
              /\ filters' = f
    /\ UNCHANGED <<config, dry_run, quantity, limit_price, result, monitorVars, probe, args, exit_code>>

\* Variants of SizingOutcome: the dry-run flag is ignored; the dry-run flag
\* is looked at before the validation error.
SizingOutcome_IgnoresDryRun(error, dry) ==
    IF error # "ok" THEN "rejected" ELSE "place"
SizingOutcome_DryRunFirst(error, dry) ==
    IF dry THEN "simulated"
    ELSE IF error # "ok" THEN "rejected"
    ELSE "place"

\* execute(), lines 66-84: what follows the validation of the sized order.
SizingOutcome(error, dry) ==
    IF error # "ok" THEN "rejected"
    ELSE IF dry THEN "simulated"
    ELSE "place"

\* execute(), lines 58-84: fetch the best ask, size and validate the order,
\* return on a rejection or a dry run, else go on to place it.
SizeOrder ==
    /\ pc = "sizing"
    /\ \E ask \in AskValues, fail \in {"none", "get_best_ask"} :
         IF fail = "get_best_ask"
         THEN /\ pc' = "error"
              /\ calls' = Append(calls, Call("get_best_ask", FALSE))
              /\ UNCHANGED <<quantity, limit_price, result, obs>>
         ELSE LET price == CalculateLimitPrice(Rat(ask), config.price_multiplier, filters)
              IN /\ calls' = Append(calls, Call("get_best_ask", TRUE))
                 /\ obs' = [status |-> "none", ask |-> ask]
                 /\ limit_price' = price
                 /\ IF RIsZero(price)
                    THEN /\ pc' = "fault"
                         /\ UNCHANGED <<quantity, result>>
                    ELSE LET qty == CalculateQuantity(Rat(config.spend_quote), price, filters)
                             error == ValidateOrder(qty, price, filters)
                         IN /\ quantity' = qty
                            /\ IF SizingOutcome(error, dry_run) = "rejected"
                               THEN /\ pc' = "done"
                                    /\ result' = OrderResult(FALSE, FALSE, NoOrderId,
                                                   NoDecimal, NoDecimal, <<error>>)
                               ELSE IF SizingOutcome(error, dry_run) = "simulated"
                               THEN /\ pc' = "done"
                                    /\ result' = OrderResult(TRUE, FALSE, NoOrderId,
                                                   qty, price, <<"Dry run - no order placed">>)
                               ELSE /\ pc' = "placing"
                                    /\ UNCHANGED result
    /\ UNCHANGED <<config, dry_run, filters, current_order_id, current_price,
                   reprice_count, intervals_above, check_num, seen, probe, args, exit_code>>

\* Variant of ImmediateFill: a partial fill counts as a fill.
ImmediateFill_OrPartial(status) == status \in {"FILLED", "PARTIALLY_FILLED"}

\* line 146
ImmediateFill(status) == status = "FILLED"

\* _place_and_monitor(), lines 133-156: submit the initial order; return on an
\* immediate fill, else enter the monitor with its locals initialised
\* (lines 167-171).
PlaceInitial ==
    /\ pc = "placing"
    /\ \E status \in Statuses, fail \in {"none", "place_limit_order"} :
         IF fail = "place_limit_order"
         THEN /\ pc' = "error"
              /\ calls' = Append(calls, PlaceCall(quantity, limit_price, FALSE, NoOrderId, "none"))
              /\ UNCHANGED <<result, monitorVars>>
         ELSE LET order_id == NextOrderId(calls)
              IN /\ calls' = Append(calls, PlaceCall(quantity, limit_price, TRUE, order_id, status))
                 /\ IF ImmediateFill(status)
                    THEN /\ pc' = "done"
                         /\ result' = OrderResult(TRUE, TRUE, order_id, quantity,
                                        limit_price, <<"Filled immediately">>)
                         /\ UNCHANGED monitorVars
                    ELSE /\ pc' = "monitoring"
                         /\ current_order_id' = order_id
                         /\ current_price' = limit_price
                         /\ reprice_count' = 0
                         /\ intervals_above' = 0
                         /\ check_num' = 0
                         /\ UNCHANGED <<result, obs, seen>>
    /\ UNCHANGED <<config, dry_run, filters, quantity, limit_price, probe, args, exit_code>>

\* ------------------------------------------------- monitor loop decisions
\* Variant of ExpectedStatus: an expired order is kept under watch.
ExpectedStatus_OrExpired(status) == status \in {"NEW", "PARTIALLY_FILLED", "EXPIRED"}
\* Variant of ThresholdReached: one observation too early.
ThresholdReached_Early(above, cfg) == above + 1 >= cfg.intervals_before_reprice
\* Variant of ThresholdReached: one observation too late.
ThresholdReached_Strict(above, cfg) == above > cfg.intervals_before_reprice
\* Variant of BudgetExhausted: one reprice too many.
BudgetExhausted_Strict(count, cfg) == count > cfg.max_reprices

\* Variant of BudgetExhausted: gives up one reprice early.
BudgetExhausted_Early(count, cfg) == count + 1 >= cfg.max_reprices
\* Variant of AskAboveLimit: an ask equal to the limit counts as above.
AskAboveLimit_OrEqual(ask, price) == RLe(price, ask)
\* Variant of AskAboveLimit: the comparison is inverted.
AskAboveLimit_Inverted(ask, price) == RLt(ask, price)
\* Variant of RepricePrice: the filters are not used, the price is not rounded.
RepricePrice_NoFilters(ask, cfg, f) == RMul(ask, cfg.price_multiplier)
\* Variant of RepricePrice: the multiplier is left out.
RepricePrice_NoMultiplier(ask, cfg, f) == RoundToTick(ask, f.tick_size)

\* line 199
ExpectedStatus(status) == status \in {"NEW", "PARTIALLY_FILLED"}
\* line 208
AskAboveLimit(ask, price) == RLt(price, ask)
\* line 219
ThresholdReached(above, cfg) == above >= cfg.intervals_before_reprice
\* line 220
BudgetExhausted(count, cfg) == count >= cfg.max_reprices
\* lines 259-261
RepricePrice(ask, cfg, f) == RoundToTick(RMul(ask, cfg.price_multiplier), f.tick_size)

\* Variant of RepriceOrder: a failed cancel is swallowed and the replacement
\* order is placed all the same.
RepriceOrder_PlacesAfterFailedCancel(log, ask, fail) ==
    LET log1 == Append(log, OrderCall("cancel_order", current_order_id, fail # "cancel_order"))
        new_price == RepricePrice(ask, config, filters)
        new_id == NextOrderId(log1)
    IN IF fail = "place_limit_order"
       THEN /\ pc' = "error"
            /\ calls' = Append(log1, PlaceCall(quantity, new_price, FALSE, NoOrderId, "none"))
            /\ UNCHANGED <<current_order_id, current_price, reprice_count, intervals_above>>
       ELSE /\ pc' = "monitoring"
            /\ calls' = Append(log1, PlaceCall(quantity, new_price, TRUE, new_id, "unread"))
            /\ current_order_id' = new_id
            /\ current_price' = new_price
            /\ reprice_count' = reprice_count + 1
            /\ intervals_above' = 0

\* Variant of RepriceOrder: the consecutive-above counter is not reset.
RepriceOrder_KeepsCounter(log, ask, fail) ==
    LET log1 == Append(log, OrderCall("cancel_order", current_order_id, fail # "cancel_order"))
        new_price == RepricePrice(ask, config, filters)
        new_id == NextOrderId(log1)
    IN IF fail = "cancel_order"
       THEN /\ pc' = "error"
            /\ calls' = log1
            /\ UNCHANGED <<current_order_id, current_price, reprice_count, intervals_above>>
       ELSE IF fail = "place_limit_order"
       THEN /\ pc' = "error"
            /\ calls' = Append(log1, PlaceCall(quantity, new_price, FALSE, NoOrderId, "none"))
            /\ UNCHANGED <<current_order_id, current_price, reprice_count, intervals_above>>
       ELSE /\ pc' = "monitoring"
            /\ calls' = Append(log1, PlaceCall(quantity, new_price, TRUE, new_id, "unread"))
            /\ current_order_id' = new_id
            /\ current_price' = new_price
            /\ reprice_count' = reprice_count + 1
            /\ intervals_above' = intervals_above + 1

\* Variant of RepriceOrder: the replacement is placed first and the old
\* order is cancelled after it.
RepriceOrder_PlacesBeforeCancel(log, ask, fail) ==
    LET new_price == RepricePrice(ask, config, filters)
        new_id == NextOrderId(log)
        log1 == Append(log, PlaceCall(quantity, new_price, fail # "place_limit_order",
                              IF fail = "place_limit_order" THEN NoOrderId ELSE new_id,
                              IF fail = "place_limit_order" THEN "none" ELSE "unread"))
    IN IF fail = "place_limit_order"
       THEN /\ pc' = "error"
            /\ calls' = log1
            /\ UNCHANGED <<current_order_id, current_price, reprice_count, intervals_above>>
       ELSE IF fail = "cancel_order"
       THEN /\ pc' = "error"
            /\ calls' = Append(log1, OrderCall("cancel_order", current_order_id, FALSE))
            /\ UNCHANGED <<current_order_id, current_price, reprice_count, intervals_above>>
       ELSE /\ pc' = "monitoring"
            /\ calls' = Append(log1, OrderCall("cancel_order", current_order_id, TRUE))
            /\ current_order_id' = new_id
            /\ current_price' = new_price
            /\ reprice_count' = reprice_count + 1
            /\ intervals_above' = 0

\* _reprice_order(), lines 257-270, on the log `log`: cancel the old order,
\* place the same quantity at the price derived from the current ask.
RepriceOrder(log, ask, fail) ==
    LET log1 == Append(log, OrderCall("cancel_order", current_order_id, fail # "cancel_order"))
        new_price == RepricePrice(ask, config, filters)
        new_id == NextOrderId(log1)
    IN IF fail = "cancel_order"
       THEN /\ pc' = "error"
            /\ calls' = log1
            /\ UNCHANGED <<current_order_id, current_price, reprice_count, intervals_above>>
       ELSE IF fail = "place_limit_order"
       THEN /\ pc' = "error"
            /\ calls' = Append(log1, PlaceCall(quantity, new_price, FALSE, NoOrderId, "none"))
            /\ UNCHANGED <<current_order_id, current_price, reprice_count, intervals_above>>
       ELSE /\ pc' = "monitoring"
            /\ calls' = Append(log1, PlaceCall(quantity, new_price, TRUE, new_id, "unread"))
            /\ current_order_id' = new_id
            /\ current_price' = new_price
            /\ reprice_count' = reprice_count + 1
            /\ intervals_above' = 0

\* Variant of FilledResult: the order id is left out of the result.
FilledResult_WithoutOrderId(order_id, qty, price) ==
    OrderResult(TRUE, TRUE, NoOrderId, qty, price, <<"Order filled">>)

\* Variant of FilledResult: reports the price of the initial order.
FilledResult_InitialPrice(order_id, qty, price) ==
    OrderResult(TRUE, TRUE, order_id, qty, limit_price, <<"Order filled">>)

\* lines 190-197
FilledResult(order_id, qty, price) ==
    OrderResult(TRUE, TRUE, order_id, qty, price, <<"Order filled">>)

\* What one iteration observed of the order it polled (lines 184-186):
\* whether the status was NEW or PARTIALLY_FILLED (line 199) and whether the
\* ask was above that order's price (line 208).
Observation(status, ask, order_id, price) ==
    [live |-> status \in {"NEW", "PARTIALLY_FILLED"}, above |-> RLt(price, Rat(ask)),
     order_id |-> order_id]

\* Body of one iteration of the loop of _monitor_order(), lines 184-246.
\* record_queries: whether get_order / get_best_ask are written to the call
\* log and the observation to `seen` (cancel_order and place_limit_order
\* always are logged).
PollBody(record_queries) ==
    /\ \E status \in Statuses, ask \in AskValues,
          fail \in {"none", "get_order", "get_best_ask", "cancel_order", "place_limit_order"} :
         LET log1 == IF record_queries
                     THEN Append(calls, OrderCall("get_order", current_order_id,
                                                  fail # "get_order"))
                     ELSE calls
             log2 == IF record_queries
                     THEN Append(log1, Call("get_best_ask", fail # "get_best_ask"))
                     ELSE calls
         IN IF fail = "get_order"
            THEN /\ pc' = "error"
                 /\ calls' = log1
                 /\ obs' = NoObs
                 /\ UNCHANGED seen
                 /\ UNCHANGED <<result, current_order_id, current_price,
                                reprice_count, intervals_above>>
            ELSE IF fail = "get_best_ask"
            THEN /\ pc' = "error"
                 /\ calls' = log2
                 /\ obs' = NoObs
                 /\ UNCHANGED seen
                 /\ UNCHANGED <<result, current_order_id, current_price,
                                reprice_count, intervals_above>>
            ELSE
              /\ obs' = [status |-> status, ask |-> ask]
              /\ seen' = IF record_queries
                         THEN Append(seen, Observation(status, ask, current_order_id,
                                                       current_price))
                         ELSE seen
              /\ IF status = "FILLED"
                 THEN /\ pc' = "done"
                      /\ calls' = log2
                      /\ result' = FilledResult(current_order_id, quantity, current_price)
                      /\ UNCHANGED <<current_order_id, current_price, reprice_count,
                                     intervals_above>>
                 ELSE IF ~ExpectedStatus(status)
                 THEN /\ pc' = "done"
                      /\ calls' = log2
                      /\ result' = OrderResult(FALSE, FALSE, current_order_id, NoDecimal,
                                     NoDecimal, <<"Unexpected status", status>>)
                      /\ UNCHANGED <<current_order_id, current_price, reprice_count,
                                     intervals_above>>
                 ELSE IF AskAboveLimit(Rat(ask), current_price)
                 THEN IF ThresholdReached(intervals_above + 1, config)
                      THEN IF BudgetExhausted(reprice_count, config)
                           THEN /\ calls' = Append(log2, OrderCall("cancel_order",
                                                current_order_id, fail # "cancel_order"))
                                /\ intervals_above' = intervals_above + 1
                                /\ UNCHANGED <<current_order_id, current_price, reprice_count>>
                                /\ IF fail = "cancel_order"
                                   THEN /\ pc' = "error"
                                        /\ UNCHANGED result
                                   ELSE /\ pc' = "done"
                                        /\ result' = OrderResult(TRUE, FALSE, current_order_id,
                                                       NoDecimal, NoDecimal,
                                                       <<"Max reprices reached">>)
                           ELSE /\ RepriceOrder(log2, Rat(ask), fail)
                                /\ UNCHANGED result
                      ELSE /\ pc' = "monitoring"
                           /\ calls' = log2
                           /\ intervals_above' = intervals_above + 1
                           /\ UNCHANGED <<result, current_order_id, current_price, reprice_count>>
                 ELSE /\ pc' = "monitoring"
                      /\ calls' = log2
                      /\ intervals_above' = 0
                      /\ UNCHANGED <<result, current_order_id, current_price, reprice_count>>
    /\ UNCHANGED <<config, dry_run, filters, quantity, limit_price, probe, args, exit_code>>

\* One iteration of the loop of _monitor_order(), lines 180-246, for the
\* first MaxChecks polls.
Poll ==
    /\ pc = "monitoring"
    /\ check_num < MaxChecks
    /\ check_num' = check_num + 1
    /\ PollBody(TRUE)

Next == FetchFilters \/ SizeOrder \/ PlaceInitial \/ Poll

Spec == Init /\ [][Next]_vars

\* ------------------------------------------------ the loop without a cap
\* The same iteration with no limit on the number of polls: the check counter
\* stops at MaxChecks and the queries are left out of the call log, which
\* keeps the state space finite.  `while True` with a blocking sleep (lines
\* 180-181) takes its next iteration whenever it has not returned.
PollUnbounded ==
    /\ pc = "monitoring"
    /\ check_num' = IF check_num < MaxChecks THEN check_num + 1 ELSE check_num
    /\ PollBody(FALSE)

LiveNext == FetchFilters \/ SizeOrder \/ PlaceInitial \/ PollUnbounded

LiveSpec == Init /\ [][LiveNext]_vars /\ WF_vars(LiveNext)

\* ------------------------------------------- the validator on its own
MaxProbe == 3
ProbeFilters ==
    [tick_size : {1}, step_size : {1}, min_notional : 0..MaxProbe,
     min_qty : 0..MaxProbe, max_qty : 0..MaxProbe]
IdleConfig == [spend_quote |-> 6, price_multiplier |-> <<1, 2>>,
               intervals_before_reprice |-> 1, max_reprices |-> 0]

ValidateInit ==
    /\ probe \in [fn : {"validate_order"}, quantity : 0..MaxProbe, price : 0..MaxProbe,
                  filters : ProbeFilters, out : {"none"}]
    /\ pc = "idle"
    /\ config = IdleConfig
    /\ dry_run = FALSE
    /\ filters = NoFilters
    /\ quantity = NoDecimal
    /\ limit_price = NoDecimal
    /\ current_order_id = NoOrderId
    /\ current_price = NoDecimal
    /\ reprice_count = 0
    /\ intervals_above = 0
    /\ check_num = 0
    /\ result = NoResult
    /\ calls = <<>>
    /\ obs = NoObs
    /\ seen = <<>>
    /\ args = NoArgs
    /\ exit_code = NoExit

ApplyValidateOrder ==
    /\ probe.fn = "validate_order"
    /\ probe.out = "none"
    /\ probe' = [probe EXCEPT !.out = ValidateOrder(Rat(probe.quantity), Rat(probe.price),
                                                    probe.filters)]
    /\ UNCHANGED <<pc, config, dry_run, filters, quantity, limit_price, result, calls,
                   monitorVars, args, exit_code>>

ValidateNext == ApplyValidateOrder

ValidateSpec == ValidateInit /\ [][ValidateNext]_vars

\* ------------------------------------------------------------- main()
\* Arguments main() may be started with: --spend-eur absent (None), negative,
\* zero or positive; --price-multiplier inside and outside (0, 1).
MainSpends == {NoDecimal, <<-1, 1>>, <<0, 1>>, <<6, 1>>, <<40, 1>>}
MainMultipliers == {<<-1, 2>>, <<0, 1>>, <<1, 2>>, <<9, 10>>, <<1, 1>>, <<3, 2>>}
MainArgs ==
    [spend_eur : MainSpends, price_multiplier : MainMultipliers, dry_run : BOOLEAN,
     has_credentials : BOOLEAN]

\* Variant of ArgsError: a spend of zero is let through.
ArgsError_AllowsZeroSpend(a) ==
    IF a.spend_eur = NoDecimal THEN "spend_missing"
    ELSE IF RLt(a.spend_eur, Rat(0)) THEN "spend_not_positive"
    ELSE IF ~(RLt(Rat(0), a.price_multiplier) /\ RLt(a.price_multiplier, Rat(1)))
    THEN "multiplier_out_of_range"
    ELSE "ok"

\* validate_args(): the ValueError it raises, or "ok".
ArgsError(a) ==
    IF a.spend_eur = NoDecimal THEN "spend_missing"
    ELSE IF RLe(a.spend_eur, Rat(0)) THEN "spend_not_positive"
    ELSE IF ~(RLt(Rat(0), a.price_multiplier) /\ RLt(a.price_multiplier, Rat(1)))
    THEN "multiplier_out_of_range"
    ELSE "ok"

MainInit ==
    /\ args \in MainArgs
    /\ exit_code = NoExit
    /\ pc = "main"
    /\ config = IdleConfig
    /\ dry_run = FALSE
    /\ filters = NoFilters
    /\ quantity = NoDecimal
    /\ limit_price = NoDecimal
    /\ current_order_id = NoOrderId
    /\ current_price = NoDecimal
    /\ reprice_count = 0
    /\ intervals_above = 0
    /\ check_num = 0
    /\ result = NoResult
    /\ calls = <<>>
    /\ obs = NoObs
    /\ seen = <<>>
    /\ probe = NoProbe

mainFrame == <<config, dry_run, result, monitorVars, probe, args>>

\* main(), lines 27-31: a ValueError of validate_args ends main() with 1.
MainValidate ==
    /\ pc = "main"
    /\ IF ArgsError(args) # "ok"
       THEN pc' = "exited" /\ exit_code' = 1
       ELSE pc' = "credentials" /\ UNCHANGED exit_code
    /\ UNCHANGED <<filters, quantity, limit_price, calls, mainFrame>>

\* main(), lines 33-41: both API credentials must be set.
MainCredentials ==
    /\ pc = "credentials"
    /\ IF ~args.has_credentials
       THEN pc' = "exited" /\ exit_code' = 1
       ELSE pc' = "run" /\ UNCHANGED exit_code
    /\ UNCHANGED <<filters, quantity, limit_price, calls, mainFrame>>

\* run(), lines 60-80, under the handlers of main(), lines 43-50.
RunFetchFilters ==
    /\ pc = "run"
    /\ \E f \in FilterSets, fail \in {"none", "get_exchange_info"} :
         IF fail = "get_exchange_info"
         THEN /\ pc' = "exited" /\ exit_code' = 1
              /\ calls' = Append(calls, Call("get_exchange_info", FALSE))
              /\ UNCHANGED filters
         ELSE /\ pc' = "run_sizing" /\ UNCHANGED exit_code
              /\ calls' = Append(calls, Call("get_exchange_info", TRUE))
              /\ filters' = f
    /\ UNCHANGED <<quantity, limit_price, mainFrame>>

\* run(), lines 82-134: best ask, limit price, quantity, the three filter
\* checks (each returns 1) and the dry run (returns 0).  A zero limit price
\* raises in the division of line 95 and main() returns 1 (lines 48-50).
RunSize ==
    /\ pc = "run_sizing"
    /\ \E ask \in AskValues, fail \in {"none", "get_best_ask"} :
         IF fail = "get_best_ask"
         THEN /\ pc' = "exited" /\ exit_code' = 1
              /\ calls' = Append(calls, Call("get_best_ask", FALSE))
              /\ UNCHANGED <<quantity, limit_price>>
         ELSE LET price == RoundToTick(RMul(Rat(ask), args.price_multiplier),
                                       filters.tick_size)
              IN /\ calls' = Append(calls, Call("get_best_ask", TRUE))
                 /\ limit_price' = price
                 /\ IF RIsZero(price)
                    THEN /\ pc' = "exited" /\ exit_code' = 1
                         /\ UNCHANGED quantity
                    ELSE LET qty == RoundDown(RDiv(args.spend_eur, price), filters.step_size)
                         IN /\ quantity' = qty
                            /\ IF \/ RLt(qty, Rat(filters.min_qty))
                                  \/ RLt(Rat(filters.max_qty), qty)
                                  \/ RLt(RMul(qty, price), Rat(filters.min_notional))
                               THEN pc' = "exited" /\ exit_code' = 1
                               ELSE IF args.dry_run
                               THEN pc' = "exited" /\ exit_code' = 0
                               ELSE pc' = "run_placing" /\ UNCHANGED exit_code
    /\ UNCHANGED <<filters, mainFrame>>

\* run(), lines 136-151: the order is placed; line 151 then reads
\* args.order_timeout, which parse_args() does not define, so AttributeError
\* is caught by main(), lines 48-50, which returns 1 (as it does for a
\* BinanceAPIError of the placement, lines 45-47).
RunPlace ==
    /\ pc = "run_placing"
    /\ \E fail \in {"none", "place_limit_order"} :
         calls' = Append(calls, PlaceCall(quantity, limit_price, fail = "none",
                           IF fail = "none" THEN NextOrderId(calls) ELSE NoOrderId,
                           IF fail = "none" THEN "unread" ELSE "none"))
    /\ pc' = "exited"
    /\ exit_code' = 1
    /\ UNCHANGED <<filters, quantity, limit_price, mainFrame>>

MainNext == MainValidate \/ MainCredentials \/ RunFetchFilters \/ RunSize \/ RunPlace

MainSpec == MainInit /\ [][MainNext]_vars

\* --------------------------------- rounding and the sizer on their own
\* Non-negative decimals n/d, as prices, quantities and their quotients are.
ProbeDecimals == {<<n, d>> : n \in 0..(4 * MaxProbe), d \in 1..MaxProbe}
ProbePrices == {<<n, d>> : n \in 1..MaxProbe, d \in 1..2}

SizerInit ==
    /\ probe \in [fn : {"round_down"}, value : ProbeDecimals, step : 0..MaxProbe,
                   out : {NoDecimal}, out2 : {NoDecimal}]
              \cup
              [fn : {"calculate_quantity"}, spend : 1..(4 * MaxProbe), price : ProbePrices,
               filters : [tick_size : {1, 2}, step_size : 1..MaxProbe, min_notional : {0},
                          min_qty : {0}, max_qty : {0}],
               out : {NoDecimal}]
    /\ pc = "idle"
    /\ config = IdleConfig
    /\ dry_run = FALSE
    /\ filters = NoFilters
    /\ quantity = NoDecimal
    /\ limit_price = NoDecimal
    /\ current_order_id = NoOrderId
    /\ current_price = NoDecimal
    /\ reprice_count = 0
    /\ intervals_above = 0
    /\ check_num = 0
    /\ result = NoResult
    /\ calls = <<>>
    /\ obs = NoObs
    /\ seen = <<>>
    /\ args = NoArgs
    /\ exit_code = NoExit

ApplyRoundDown ==
    /\ probe.fn = "round_down"
    /\ probe.out = NoDecimal
    /\ probe' = [probe EXCEPT !.out = RoundDown(probe.value, probe.step)]
    /\ UNCHANGED <<pc, config, dry_run, filters, quantity, limit_price, result, calls,
                   monitorVars, args, exit_code>>

\* Quantizing the rounded value once more.
ApplyRoundDownAgain ==
    /\ probe.fn = "round_down"
    /\ probe.out # NoDecimal
    /\ probe.out2 = NoDecimal
    /\ probe' = [probe EXCEPT !.out2 = RoundDown(probe.out, probe.step)]
    /\ UNCHANGED <<pc, config, dry_run, filters, quantity, limit_price, result, calls,
                   monitorVars, args, exit_code>>

ApplyCalculateQuantity ==
    /\ probe.fn = "calculate_quantity"
    /\ probe.out = NoDecimal
    /\ probe' = [probe EXCEPT !.out = CalculateQuantity(Rat(probe.spend), probe.price,
                                                        probe.filters)]
    /\ UNCHANGED <<pc, config, dry_run, filters, quantity, limit_price, result, calls,
                   monitorVars, args, exit_code>>

SizerNext == ApplyRoundDown \/ ApplyRoundDownAgain \/ ApplyCalculateQuantity

SizerSpec == SizerInit /\ [][SizerNext]_vars

\* =============================================================== claims
PlaceCallsOf(log) == SelectSeq(log, LAMBDA c : c.op = "place_limit_order")
CountOp(log, op) == Len(SelectSeq(log, LAMBDA c : c.op = op))
LastPlaced(log) == PlacedCalls(log)[Len(PlacedCalls(log))]
MeetsFilters(q, p, f) ==
    /\ RLe(Rat(f.min_qty), q)
    /\ RLe(q, Rat(f.max_qty))
    /\ RLe(Rat(f.min_notional), RMul(q, p))
LiveStatuses == {"NEW", "PARTIALLY_FILLED"}
GetOrderOk(id) == OrderCall("get_order", id, TRUE)
GetBestAskOk == Call("get_best_ask", TRUE)
CancelOk(id) == OrderCall("cancel_order", id, TRUE)

\* C1: every order submitted during a run, the initial one and every reprice,
\* has a price that is a multiple of tick_size, a quantity that is a multiple
\* of step_size, min_qty <= quantity <= max_qty and quantity * price >=
\* min_notional.
C1_EveryOrderMeetsFilters ==
    \A i \in 1..Len(calls) :
        calls[i].op = "place_limit_order" =>
            /\ IsMultipleOf(calls[i].price, filters.tick_size)
            /\ IsMultipleOf(calls[i].quantity, filters.step_size)
            /\ MeetsFilters(calls[i].quantity, calls[i].price, filters)

\* C2: for every order submitted during a run, the initial one and every
\* reprice, quantity * price <= the configured spend amount.
C2_SpendNeverExceeded ==
    \A i \in 1..Len(calls) :
        calls[i].op = "place_limit_order" =>
            RLe(RMul(calls[i].quantity, calls[i].price), Rat(config.spend_quote))

\* C3: in a dry run no order is placed, cancelled or queried, and an order
\* that passes validation is returned as success = TRUE, filled = FALSE with
\* the computed quantity and price after exactly the filter fetch and the
\* best-ask fetch.
C3_DryRunCallsNoOrderOperation ==
    dry_run =>
        /\ \A i \in 1..Len(calls) : calls[i].op \in {"get_exchange_info", "get_best_ask"}
        /\ (quantity # NoDecimal /\ MeetsFilters(quantity, limit_price, filters)) =>
              /\ pc = "done"
              /\ result.success /\ ~result.filled
              /\ result.quantity = quantity /\ result.price = limit_price
              /\ calls = <<Call("get_exchange_info", TRUE), GetBestAskOk>>
C3_Witness ==
    /\ dry_run /\ pc = "done" /\ result.success
    /\ result.message = <<"Dry run - no order placed">>

\* C4: when the sized order fails the filters, execute returns success = FALSE,
\* filled = FALSE with the rejection reason, and neither place_limit_order nor
\* cancel_order is called, in a dry run and in a live run alike.
C4_RejectedOrderIsNeverSubmitted ==
    (quantity # NoDecimal /\ ~MeetsFilters(quantity, limit_price, filters)) =>
        /\ pc = "done"
        /\ ~result.success /\ ~result.filled
        /\ result.order_id = NoOrderId
        /\ result.message[1] \in {"below_min_qty", "above_max_qty", "below_min_notional"}
        /\ \A i \in 1..Len(calls) : calls[i].op \notin {"place_limit_order", "cancel_order"}
C4_Witness ==
    /\ pc = "done" /\ dry_run /\ ~result.success
    /\ result.message = <<"below_min_notional">>

\* C5: the validator reports the min_qty violation whenever quantity < min_qty,
\* otherwise the max_qty violation whenever quantity > max_qty, otherwise the
\* min_notional violation whenever quantity * price < min_notional, otherwise
\* it passes; exactly one of the four outcomes is returned.
C5_ValidatorFirstFailureWins ==
    (probe.fn = "validate_order" /\ probe.out # "none") =>
        LET q == probe.quantity
            p == probe.price
            f == probe.filters
        IN /\ probe.out \in {"below_min_qty", "above_max_qty", "below_min_notional", "ok"}
           /\ (probe.out = "below_min_qty") <=> (q < f.min_qty)
           /\ (probe.out = "above_max_qty") <=> (q >= f.min_qty /\ q > f.max_qty)
           /\ (probe.out = "below_min_notional") <=>
                 (q >= f.min_qty /\ q <= f.max_qty /\ q * p < f.min_notional)
           /\ (probe.out = "ok") <=>
                 (q >= f.min_qty /\ q <= f.max_qty /\ q * p >= f.min_notional)
C5_Witness ==
    /\ probe.fn = "validate_order"
    /\ probe.out = "below_min_qty"
    /\ probe.quantity > probe.filters.max_qty
    /\ probe.quantity * probe.price < probe.filters.min_notional

\* C6: while the order is live and the reprice budget is not used up, the poll
\* on which the ask has been above the limit intervals_before_reprice times in
\* a row makes exactly one cancel_order and one place_limit_order and leaves
\* the counter at zero; the polls before it make neither.
C6_ThresholdBreachRepricesOnce ==
    [][ ( /\ pc = "monitoring" /\ pc' # "error"
          /\ obs'.status \in LiveStatuses
          /\ RLt(current_price, Rat(obs'.ask))
          /\ Len(PlacedCalls(calls)) - 1 < config.max_reprices
          /\ intervals_above + 1 <= config.intervals_before_reprice )
        => IF intervals_above + 1 = config.intervals_before_reprice
           THEN /\ Len(calls') = Len(calls) + 4
                /\ SubSeq(calls', 1, Len(calls) + 3) =
                      calls \o <<GetOrderOk(current_order_id), GetBestAskOk,
                                 CancelOk(current_order_id)>>
                /\ calls'[Len(calls')].op = "place_limit_order"
                /\ calls'[Len(calls')].ok
                /\ intervals_above' = 0
           ELSE /\ calls' = calls \o <<GetOrderOk(current_order_id), GetBestAskOk>>
                /\ intervals_above' = intervals_above + 1
      ]_vars
C6_Witness ==
    /\ pc = "monitoring"
    /\ config.intervals_before_reprice = 2
    /\ check_num = 2
    /\ intervals_above = 0
    /\ CountOp(calls, "cancel_order") = 1
    /\ CountOp(calls, "place_limit_order") = 2

\* C7: once max_reprices reprices have been made (none for max_reprices = 0),
\* the next poll on which the counter reaches intervals_before_reprice cancels
\* the active order and returns success = TRUE, filled = FALSE, "Max reprices
\* reached"; no order is placed on that poll and the run makes no later call.
C7_ExhaustedBudgetAbandons ==
    [][ /\ ( /\ pc = "monitoring" /\ pc' # "error"
             /\ obs'.status \in LiveStatuses
             /\ RLt(current_price, Rat(obs'.ask))
             /\ Len(PlacedCalls(calls)) - 1 = config.max_reprices
             /\ intervals_above + 1 >= config.intervals_before_reprice )
           => /\ pc' = "done"
              /\ result' = OrderResult(TRUE, FALSE, LastPlaced(calls).order_id, NoDecimal,
                                       NoDecimal, <<"Max reprices reached">>)
              /\ calls' = calls \o <<GetOrderOk(current_order_id), GetBestAskOk,
                                     CancelOk(LastPlaced(calls).order_id)>>
        /\ (result.message = <<"Max reprices reached">>) => FALSE
      ]_vars
C7_Witness ==
    /\ pc = "done"
    /\ result.message = <<"Max reprices reached">>
    /\ config.max_reprices = 1
    /\ CountOp(calls, "place_limit_order") = 2
    /\ CountOp(calls, "cancel_order") = 2

\* C8: a poll that observes a status other than NEW, PARTIALLY_FILLED or
\* FILLED returns success = FALSE, filled = FALSE on that poll, whatever the
\* ask and the counters are, and neither that poll nor anything after it
\* calls cancel_order or place_limit_order.
C8_UnexpectedStatusIsFatal ==
    [][ /\ ( /\ pc = "monitoring"
             /\ obs'.status \in Statuses \ {"NEW", "PARTIALLY_FILLED", "FILLED"} )
           => /\ pc' = "done"
              /\ ~result'.success /\ ~result'.filled
              /\ result'.message = <<"Unexpected status", obs'.status>>
              /\ calls' = calls \o <<GetOrderOk(current_order_id), GetBestAskOk>>
        /\ (result.message[1] = "Unexpected status") => FALSE
      ]_vars
C8_Witness ==
    /\ pc = "done"
    /\ result.message = <<"Unexpected status", "EXPIRED">>
    /\ RLt(current_price, Rat(obs.ask))
    /\ intervals_above + 1 >= config.intervals_before_reprice
    /\ reprice_count = 1

\* C9: a poll that observes FILLED returns success = TRUE, filled = TRUE with
\* the id and limit price of the most recently placed order and the quantity
\* of the initial order, whatever the ask is, and makes no cancel_order or
\* place_limit_order call.
C9_FilledReportsActiveOrder ==
    [][ /\ (pc = "monitoring" /\ obs'.status = "FILLED")
           => /\ pc' = "done"
              /\ result' = OrderResult(TRUE, TRUE, LastPlaced(calls).order_id,
                                       PlacedCalls(calls)[1].quantity,
                                       LastPlaced(calls).price, <<"Order filled">>)
              /\ calls' = calls \o <<GetOrderOk(LastPlaced(calls).order_id), GetBestAskOk>>
        /\ (result.message = <<"Order filled">>) => FALSE
      ]_vars
C9_Witness ==
    /\ pc = "done"
    /\ result.filled
    /\ result.message = <<"Order filled">>
    /\ result.order_id = 2
    /\ ~REq(result.price, limit_price)
    /\ RLt(result.price, Rat(obs.ask))

\* C10: if the response to the initial placement says FILLED, execute returns
\* success = TRUE, filled = TRUE with that order's id, quantity and price and
\* makes no further exchange call; for every other status of the response
\* the monitor is entered.
C10_ImmediateFillSkipsMonitor ==
    [][ /\ (pc = "placing" /\ pc' # "error")
           => LET c == calls'[Len(calls')]
              IN /\ c.op = "place_limit_order"
                 /\ c.quantity = quantity /\ c.price = limit_price
                 /\ IF c.status_read = "FILLED"
                    THEN /\ pc' = "done"
                         /\ result' = OrderResult(TRUE, TRUE, c.order_id, c.quantity,
                                                  c.price, <<"Filled immediately">>)
                         /\ calls' = <<Call("get_exchange_info", TRUE), GetBestAskOk, c>>
                    ELSE /\ pc' = "monitoring"
                         /\ result' = NoResult
                         /\ current_order_id' = c.order_id
        /\ (result.message = <<"Filled immediately">>) => FALSE
      ]_vars
C10_Witness ==
    /\ pc = "done"
    /\ result.message = <<"Filled immediately">>
    /\ result.order_id = 1
    /\ Len(calls) = 3

\* C11: a failed exchange call is never retried: the failed call is the last
\* exchange call of the run, the run ends with the error instead of an
\* OrderResult, and a failed cancel inside a reprice is not followed by a
\* placement.
C11_FailedCallEndsTheRun ==
    /\ \A i \in 1..Len(calls) :
          ~calls[i].ok => (i = Len(calls) /\ pc = "error" /\ result = NoResult)
    /\ pc = "error" => (Len(calls) > 0 /\ ~calls[Len(calls)].ok)
C11_Witness ==
    /\ pc = "error"
    /\ calls[Len(calls)].op = "cancel_order"
    /\ ~calls[Len(calls)].ok
    /\ reprice_count < config.max_reprices
    /\ CountOp(calls, "place_limit_order") = 1

\* C12: for spend > 0, a multiplier in (0,1) and any filters and positive
\* best ask the exchange returns, execute ends with an OrderResult or an
\* exchange error, never with another fault, also when the limit price
\* rounds down to zero.
C12_NoFaultButExchangeError ==
    /\ pc \in {"start", "sizing", "placing", "monitoring", "done", "error"}
    /\ pc = "done" => result # NoResult

\* C14: the monitor returns an OrderResult only as FILLED (status FILLED),
\* ABANDONED (live order, threshold reached with the budget used up, after a
\* cancel) or UNEXPECTED (any other status); while the status is NEW or
\* PARTIALLY_FILLED and no threshold breach meets a used-up budget, the poll
\* does not return.
C14_MonitorReturnsOnlyThreeWays ==
    [][ LET breach == /\ RLt(current_price, Rat(obs'.ask))
                      /\ intervals_above + 1 >= config.intervals_before_reprice
                      /\ Len(PlacedCalls(calls)) - 1 >= config.max_reprices
        IN /\ (pc = "monitoring" /\ pc' = "done") =>
                \/ /\ obs'.status = "FILLED"
                   /\ result'.success /\ result'.filled
                \/ /\ obs'.status \in LiveStatuses /\ breach
                   /\ result'.success /\ ~result'.filled
                   /\ calls'[Len(calls')] = CancelOk(current_order_id)
                \/ /\ obs'.status \in Statuses \ (LiveStatuses \cup {"FILLED"})
                   /\ ~result'.success /\ ~result'.filled
           /\ (pc = "monitoring" /\ pc' # "error" /\ obs'.status \in LiveStatuses /\ ~breach)
                => (pc' = "monitoring" /\ result' = NoResult)
      ]_vars
C14_Witness ==
    /\ pc = "monitoring"
    /\ check_num = MaxChecks
    /\ reprice_count = config.max_reprices
    /\ obs.status = "PARTIALLY_FILLED"
    /\ result = NoResult

\* C16: every limit price submitted, initial or repriced, is strictly below
\* the best ask it was computed from and not above best ask * multiplier.
C16_LimitPriceBelowAsk ==
    [][ (Len(calls') > Len(calls) /\ calls'[Len(calls')].op = "place_limit_order")
        => /\ RLt(calls'[Len(calls')].price, Rat(obs'.ask))
           /\ RLe(calls'[Len(calls')].price, RMul(Rat(obs'.ask), config.price_multiplier))
      ]_vars
C16_Witness ==
    /\ pc = "monitoring"
    /\ reprice_count = 1
    /\ calls[Len(calls)].op = "place_limit_order"
    /\ RLt(calls[Len(calls)].price, RMul(Rat(obs.ask), config.price_multiplier))
    /\ RLt(limit_price, current_price)

\* C20: a poll that sees the order NEW or PARTIALLY_FILLED and the ask at or
\* below the limit sets the consecutive-above counter to zero, makes only the
\* status and ask queries, and leaves the active order id, the active limit
\* price and the reprice count as they were.
C20_HoldOnlyResetsCounter ==
    [][ ( /\ pc = "monitoring"
          /\ obs'.status \in LiveStatuses
          /\ RLe(Rat(obs'.ask), current_price) )
        => /\ intervals_above' = 0
           /\ calls' = calls \o <<GetOrderOk(current_order_id), GetBestAskOk>>
           /\ pc' = "monitoring"
           /\ UNCHANGED <<current_order_id, current_price, reprice_count, result,
                          quantity, limit_price, filters, config>>
      ]_vars
C20_Witness ==
    /\ pc = "monitoring"
    /\ obs.status \in LiveStatuses
    /\ REq(Rat(obs.ask), current_price)
    /\ intervals_above = 0
    /\ reprice_count = 1

Terminated == pc \in {"done", "error", "fault"}
\* The latest poll saw a live order with the ask at or below the limit.
HeldLast ==
    /\ pc = "monitoring"
    /\ obs.status \in LiveStatuses
    /\ RLe(Rat(obs.ask), current_price)

\* C15 (as stated): every run of execute eventually reaches a terminal
\* outcome, whatever statuses and asks the exchange reports, provided each
\* poll is eventually taken.
C15_EveryRunTerminates == <>Terminated

\* C15 (amended): a run eventually reaches a terminal outcome unless the
\* exchange again and again reports the order NEW or PARTIALLY_FILLED with
\* the best ask at or below the active limit price.
C15_TerminatesUnlessHeldAgainAndAgain == <>Terminated \/ []<>HeldLast
C15_Witness ==
    /\ pc = "done"
    /\ result.message = <<"Max reprices reached">>
    /\ check_num = MaxChecks
    /\ reprice_count = 1

RAdd(a, b) == <<a[1] * b[2] + b[1] * a[2], a[2] * b[2]>>

\* C17: for every value >= 0 and step > 0, round_down(value, step) is a
\* multiple of step with round_down(value, step) <= value <
\* round_down(value, step) + step.
C17_RoundDownIsFloorToStep ==
    (probe.fn = "round_down" /\ probe.out # NoDecimal /\ probe.step > 0) =>
        /\ IsMultipleOf(probe.out, probe.step)
        /\ RLe(probe.out, probe.value)
        /\ RLt(probe.value, RAdd(probe.out, Rat(probe.step)))
C17_Witness ==
    /\ probe.fn = "round_down"
    /\ probe.out # NoDecimal
    /\ probe.step = 2
    /\ RLt(probe.out, probe.value)
    /\ RLt(Rat(0), probe.out)

\* C18: round_down is idempotent for step > 0: quantizing an already
\* quantized value by the same step leaves it unchanged.
C18_RoundDownIdempotent ==
    (probe.fn = "round_down" /\ probe.out2 # NoDecimal /\ probe.step > 0) =>
        REq(probe.out2, probe.out)
C18_Witness ==
    /\ probe.fn = "round_down"
    /\ probe.out2 # NoDecimal
    /\ probe.step = 3
    /\ ~REq(probe.out, probe.value)
    /\ REq(probe.out2, Rat(3))

\* C19: the sized quantity is the largest multiple of step_size whose notional
\* at the limit price does not exceed the spend: quantity * price <= spend <
\* (quantity + step_size) * price, for spend > 0, price > 0, step_size > 0.
C19_QuantityIsLargestAffordable ==
    (probe.fn = "calculate_quantity" /\ probe.out # NoDecimal) =>
        /\ IsMultipleOf(probe.out, probe.filters.step_size)
        /\ RLe(RMul(probe.out, probe.price), Rat(probe.spend))
        /\ RLt(Rat(probe.spend),
               RMul(RAdd(probe.out, Rat(probe.filters.step_size)), probe.price))
C19_Witness ==
    /\ probe.fn = "calculate_quantity"
    /\ probe.out # NoDecimal
    /\ probe.filters.step_size = 2
    /\ probe.filters.tick_size = 1
    /\ RLt(Rat(0), probe.out)
    /\ RLt(RMul(probe.out, probe.price), Rat(probe.spend))

\* C13: a missing or non-positive spend, or a price multiplier outside (0, 1),
\* is rejected before any exchange call: main() returns the failure exit code
\* and the exchange is never called.
C13_BadConfigurationMakesNoCall ==
    LET bad == \/ args.spend_eur = NoDecimal
               \/ args.spend_eur[1] <= 0
               \/ args.price_multiplier[1] <= 0
               \/ args.price_multiplier[1] >= args.price_multiplier[2]
    IN bad => /\ calls = <<>>
              /\ pc \in {"main", "exited"}
              /\ pc = "exited" => exit_code = 1
C13_Witness ==
    /\ pc = "exited"
    /\ exit_code = 1
    /\ args.has_credentials
    /\ args.spend_eur = Rat(6)
    /\ args.price_multiplier = Rat(1)
    /\ calls = <<>>

\* C21: with intervals_before_reprice >= 1, a poll calls cancel_order only if
\* it and the intervals_before_reprice - 1 polls right before it all observed
\* a NEW or PARTIALLY_FILLED status with the ask above the limit price of the
\* same active order (no reprice in between); and a poll on which the counter
\* stays below the threshold leaves the order id, the limit price and the
\* reprice count as they were and calls neither cancel_order nor
\* place_limit_order.
C21_CancelOnlyAfterConsecutiveBreaches ==
    [][ /\ ( /\ pc = "monitoring"
             /\ config.intervals_before_reprice >= 1
             /\ CountOp(calls', "cancel_order") > CountOp(calls, "cancel_order") )
           => LET n == config.intervals_before_reprice
              IN /\ Len(seen') >= n
                 /\ \A k \in (Len(seen') - n + 1)..Len(seen') :
                      /\ seen'[k].live
                      /\ seen'[k].above
                      /\ seen'[k].order_id = current_order_id
        /\ ( /\ pc = "monitoring"
             /\ intervals_above + 1 < config.intervals_before_reprice )
           => /\ UNCHANGED <<current_order_id, current_price, reprice_count>>
              /\ CountOp(calls', "cancel_order") = CountOp(calls, "cancel_order")
              /\ CountOp(calls', "place_limit_order") = CountOp(calls, "place_limit_order")
      ]_vars
C21_Witness ==
    /\ config.intervals_before_reprice = 2
    /\ check_num = 4
    /\ CountOp(calls, "cancel_order") = 1
    /\ reprice_count = 1
    /\ seen[1].above /\ ~seen[2].above /\ seen[3].above /\ seen[4].above

\* C22: a reprice (live status, threshold reached, budget left, every call
\* succeeding) cancels the active order and then places the quantity of the
\* initial order at round_to_tick(ask * price_multiplier, tick_size), with the
\* ask of that same poll and the run's multiplier and filters; after it the
\* active id and price are those of the new order and the reprice count is
\* one higher; and every poll queries the status of the most recently placed
\* order and compares the ask with that order's price.
C22_RepriceCancelsThenPlacesAtNewPrice ==
    [][ /\ ( /\ pc = "monitoring" /\ pc' # "error"
             /\ obs'.status \in LiveStatuses
             /\ RLt(current_price, Rat(obs'.ask))
             /\ intervals_above + 1 >= config.intervals_before_reprice
             /\ reprice_count < config.max_reprices )
           => LET new_price == RoundToTick(RMul(Rat(obs'.ask), config.price_multiplier),
                                           filters.tick_size)
                  new_id == calls'[Len(calls')].order_id
              IN /\ calls' = calls \o
                       <<GetOrderOk(current_order_id), GetBestAskOk,
                         CancelOk(current_order_id),
                         PlaceCall(PlacedCalls(calls)[1].quantity, new_price, TRUE,
                                   new_id, "unread")>>
                 /\ new_id \notin {calls[i].order_id : i \in {j \in 1..Len(calls) :
                                                        calls[j].op = "place_limit_order"}}
                 /\ current_order_id' = new_id
                 /\ current_price' = new_price
                 /\ reprice_count' = reprice_count + 1
        /\ pc = "monitoring"
           => /\ current_order_id = LastPlaced(calls).order_id
              /\ current_price = LastPlaced(calls).price
              /\ calls'[Len(calls) + 1].op = "get_order"
              /\ calls'[Len(calls) + 1].order_id = LastPlaced(calls).order_id
              /\ Len(seen') > Len(seen)
                 => seen'[Len(seen')].above = RLt(LastPlaced(calls).price, Rat(obs'.ask))
      ]_vars
C22_Witness ==
    /\ reprice_count = 1
    /\ Len(seen) >= 2
    /\ seen[Len(seen)].order_id = 2
    /\ seen[Len(seen)].live
    /\ ~seen[Len(seen)].above
    /\ pc = "monitoring"

\* C23: every reprice replaces the order at a price closer to the market: the
\* limit price of each replacement order is strictly greater than the limit
\* price of the order it replaced.
C23_RepriceRaisesThePrice ==
    \A i \in 2..Len(PlacedCalls(calls)) :
        RLt(PlacedCalls(calls)[i - 1].price, PlacedCalls(calls)[i].price)

\* C24: in a run with intervals_before_reprice >= 1 in which every exchange
\* call has succeeded and every poll has observed a NEW or PARTIALLY_FILLED
\* status with the ask above the active limit price, the monitor has made one
\* reprice per intervals_before_reprice polls and returns ABANDONED on exactly
\* poll (max_reprices + 1) * intervals_before_reprice, after exactly
\* max_reprices reprices.
RunawayMarket ==
    /\ config.intervals_before_reprice >= 1
    /\ pc \in {"monitoring", "done"}
    /\ current_order_id # NoOrderId
    /\ Len(seen) = check_num
    /\ \A k \in 1..Len(seen) : seen[k].live /\ seen[k].above
    /\ \A i \in 1..Len(calls) : calls[i].ok
AbandonPoll == (config.max_reprices + 1) * config.intervals_before_reprice
C24_RunawayMarketAbandonsOnSchedule ==
    RunawayMarket =>
        /\ check_num <= AbandonPoll
        /\ IF check_num = AbandonPoll
           THEN /\ pc = "done"
                /\ result = OrderResult(TRUE, FALSE, current_order_id, NoDecimal, NoDecimal,
                                        <<"Max reprices reached">>)
                /\ reprice_count = config.max_reprices
                /\ CountOp(calls, "place_limit_order") = config.max_reprices + 1
           ELSE /\ pc = "monitoring"
                /\ reprice_count = check_num \div config.intervals_before_reprice
C24_Witness ==
    /\ RunawayMarket
    /\ config.intervals_before_reprice = 2
    /\ config.max_reprices = 1
    /\ check_num = 4
    /\ pc = "done"
    /\ reprice_count = 1

\* C25: the exchange filters are fetched exactly once per run, as the run's
\* first exchange call (so before the best-ask fetch and before any
\* placement); once fetched they never change and are never fetched again,
\* and the price of every order of the run, the initial one and each
\* reprice, is rounded with the tick size of that one filter set.
C25_FiltersFetchedOnceAndFirst ==
    [][ /\ calls # <<>> => calls[1].op = "get_exchange_info"
        /\ \A i \in 2..Len(calls) : calls[i].op # "get_exchange_info"
        /\ filters # NoFilters => /\ filters' = filters
                                  /\ calls[1] = Call("get_exchange_info", TRUE)
        /\ \A i \in 1..Len(calls') :
              calls'[i].op = "place_limit_order"
                 => IsMultipleOf(calls'[i].price, filters.tick_size)
      ]_vars
C25_Witness ==
    /\ reprice_count = 1
    /\ filters.tick_size = 2
    /\ check_num >= 2
    /\ CountOp(calls, "get_exchange_info") = 1
    /\ CountOp(calls, "place_limit_order") = 2

\* C26: in every state of the monitor 0 <= reprice count <= max_reprices, and
\* a run calls place_limit_order at most 1 + max_reprices times and
\* cancel_order at most max_reprices + 1 times.
C26_RepriceBudgetBoundsOrders ==
    /\ reprice_count >= 0
    /\ reprice_count <= config.max_reprices
    /\ CountOp(calls, "place_limit_order") <= 1 + config.max_reprices
    /\ CountOp(calls, "cancel_order") <= config.max_reprices + 1
C26_Witness ==
    /\ config.max_reprices = 1
    /\ reprice_count = 1
    /\ CountOp(calls, "place_limit_order") = 2
    /\ CountOp(calls, "cancel_order") = 2
    /\ pc = "error"

\* C27: taking a cancel that returns successfully to have cancelled, at most
\* one order placed by the run is open at any instant: every placement after
\* the first comes right after a successful cancel of the order placed
\* before it, every cancel names the most recently placed order, and after
\* an ABANDONED return no order of the run is open.
PlacedBefore(i) == PlacedCalls(SubSeq(calls, 1, i - 1))
OpenOrders ==
    {c.order_id : c \in {calls[i] : i \in {j \in 1..Len(calls) :
                            calls[j].op = "place_limit_order" /\ calls[j].ok}}}
    \ {c.order_id : c \in {calls[i] : i \in {j \in 1..Len(calls) :
                            calls[j].op = "cancel_order" /\ calls[j].ok}}}
C27_AtMostOneOpenOrder ==
    /\ Cardinality(OpenOrders) <= 1
    /\ \A i \in 1..Len(calls) :
         /\ (calls[i].op = "place_limit_order" /\ PlacedBefore(i) # <<>>)
               => calls[i - 1] = CancelOk(PlacedBefore(i)[Len(PlacedBefore(i))].order_id)
         /\ calls[i].op = "cancel_order"
               => /\ PlacedBefore(i) # <<>>
                  /\ calls[i].order_id = PlacedBefore(i)[Len(PlacedBefore(i))].order_id
    /\ (pc = "done" /\ result.message = <<"Max reprices reached">>)
          => /\ OpenOrders = {}
             /\ calls[Len(calls)] = CancelOk(LastPlaced(calls).order_id)
C27_Witness ==
    /\ pc = "done"
    /\ result.message = <<"Max reprices reached">>
    /\ CountOp(calls, "place_limit_order") = 2
    /\ CountOp(calls, "cancel_order") = 2
    /\ OpenOrders = {}

\* C28: with an exchange that may fill an order partly between polls, the
\* base quantity bought over all orders of one run never exceeds the quantity
\* computed at the start.  The quantity bought is bounded from below by what
\* the exchange has reported: an order reported FILLED bought its whole
\* quantity, an order whose placement was answered PARTIALLY_FILLED bought at
\* least one lot (step_size) of it.
RECURSIVE BoughtAtLeast(_)
BoughtAtLeast(placed) ==
    IF placed = <<>> THEN Rat(0)
    ELSE LET c == placed[Len(placed)]
             rest == BoughtAtLeast(SubSeq(placed, 1, Len(placed) - 1))
         IN IF result.filled /\ result.order_id = c.order_id
            THEN RAdd(rest, c.quantity)
            ELSE IF c.status_read = "PARTIALLY_FILLED" /\ RLt(Rat(filters.step_size), c.quantity)
            THEN RAdd(rest, Rat(filters.step_size))
            ELSE rest
C28_BoughtNeverExceedsQuantity ==
    quantity # NoDecimal => RLe(BoughtAtLeast(PlacedCalls(calls)), quantity)

\* C29: every OrderResult returned by execute is consistent: filled = TRUE
\* implies success = TRUE and an order id, a quantity and a price;
\* success = FALSE implies filled = FALSE; and the result carries an order id
\* exactly when the run submitted at least one order to the exchange.
C29_OrderResultIsConsistent ==
    pc = "done" =>
        /\ result.filled => /\ result.success
                            /\ result.order_id # NoOrderId
                            /\ result.quantity # NoDecimal
                            /\ result.price # NoDecimal
        /\ ~result.success => ~result.filled
        /\ (result.order_id # NoOrderId) <=> (PlacedCalls(calls) # <<>>)
        /\ result.order_id # NoOrderId => result.order_id = LastPlaced(calls).order_id
C29_Witness ==
    /\ pc = "done"
    /\ result.filled
    /\ result.message = <<"Order filled">>
    /\ reprice_count = 1
    /\ result.order_id = 2
====
